---------------------------- MODULE Spec2Model ----------------------------
(***************************************************************************)
(* Signal evaluation and candidate selection of the watchlist scanner:     *)
(* the fundamentals gate (src/src/fundamentals.py), the regime classifier  *)
(* (src/src/regime.py), the indicators and detectors (src/src/signals.py)  *)
(* and the selector build_watchlist (src/src/watchlist_builder.py).        *)
(*                                                                         *)
(* Numbers.  A cell of a table is a tagged value: Num(v), NaN or None.     *)
(* Fundamentals values are carried in tenths (1.5 is 15), prices and       *)
(* volumes as integers; every comparison the code makes on a quotient is   *)
(* made here on the cross-multiplied integers, so it is exact.             *)
(***************************************************************************)
EXTENDS Integers, Sequences, FiniteSets, TLC

VARIABLES
    pc,        \* "call" before the function under evaluation has run, "done" after
    call,      \* the inputs of the function being evaluated (a record)
    ret,       \* its result, once pc = "done"
    locals     \* build_watchlist's local variables (NoLocals in the other functions)

vars == <<pc, call, ret, locals>>

-----------------------------------------------------------------------------
(* Cells *)

Num(v) == [k |-> "num", v |-> v]
NaN == [k |-> "nan", v |-> 0]
None == [k |-> "none", v |-> 0]
IsNum(x) == x.k = "num"

\* the value of ret while nothing has returned
Pending == [k |-> "pending"]
NoLocals == [k |-> "none"]

-----------------------------------------------------------------------------
(* src/src/fundamentals.py *)

\* _to_float: float(x), or None when float() raises (None, unparsable text).
\* float(nan) is nan and is returned as such.  A whole column (row.get on a
\* table) converts only when it holds a single value.
ToFloat(x) ==
    IF x.k = "none" THEN None
    ELSE IF x.k = "column"
    THEN (IF Len(x.cells) = 1 /\ x.cells[1].k # "none" THEN x.cells[1] ELSE None)
    ELSE x

\* (mutant) an exclusive threshold
LeCheckStrict(x, limit) == x.k # "none" /\ (x.k = "num" /\ x.v < limit)

\* "d is not None and d <= limit" (limit in tenths); a comparison with nan is False
LeCheck(x, limit) == x.k # "none" /\ (x.k = "num" /\ x.v <= limit)
GeCheck(x, limit) == x.k # "none" /\ (x.k = "num" /\ x.v >= limit)

FundChecks(row) ==
    LET d_e == ToFloat(row.debt_to_equity)
        icr == ToFloat(row.interest_coverage)
        pledge == ToFloat(row.promoter_pledge_pct)
        qrev == ToFloat(row.qoq_rev_pos_last3)
        qeps == ToFloat(row.qoq_eps_pos_last3)
    IN  [de_le_1_5 |-> LeCheck(d_e, 15),
         icr_ge_2_5 |-> GeCheck(icr, 25),
         pledge_le_20 |-> LeCheck(pledge, 200),
         qoq_rev_or_eps_ge_1_of_3 |-> GeCheck(qrev, 10) \/ GeCheck(qeps, 10)]

FundStatus(checks, allow_unknown) ==
    IF \E c \in DOMAIN checks : checks[c] = FALSE
    THEN "FAIL"
    ELSE IF \A c \in DOMAIN checks : checks[c] = TRUE
         THEN "PASS"
         ELSE IF allow_unknown THEN "UNKNOWN" ELSE "FAIL"

fundamentals_pass(row, allow_unknown) ==
    LET checks == FundChecks(row)
    IN  [de_le_1_5 |-> checks.de_le_1_5,
         icr_ge_2_5 |-> checks.icr_ge_2_5,
         pledge_le_20 |-> checks.pledge_le_20,
         qoq_rev_or_eps_ge_1_of_3 |-> checks.qoq_rev_or_eps_ge_1_of_3,
         status |-> FundStatus(checks, allow_unknown)]

\* Records the gate is evaluated on: each field missing (None: no such key or
\* unparsable; NaN: an empty cell of the table) or a value around its threshold.
DEValues == {None, NaN, Num(12), Num(15), Num(16)}
ICRValues == {None, NaN, Num(24), Num(25), Num(30)}
PledgeValues == {None, NaN, Num(100), Num(200), Num(250)}
QoQValues == {None, NaN, Num(0), Num(10)}

FundRows ==
    [debt_to_equity : DEValues, interest_coverage : ICRValues,
     promoter_pledge_pct : PledgeValues,
     qoq_rev_pos_last3 : QoQValues, qoq_eps_pos_last3 : QoQValues]

InitFund ==
    /\ call \in [fn : {"fundamentals_pass"}, row : FundRows, allow_unknown : BOOLEAN]
    /\ pc = "call"
    /\ ret = Pending
    /\ locals = NoLocals

CallFund ==
    /\ call.fn = "fundamentals_pass"
    /\ pc = "call"
    /\ pc' = "done"
    /\ ret' = fundamentals_pass(call.row, call.allow_unknown)
    /\ UNCHANGED <<call, locals>>

SpecFund == InitFund /\ [][CallFund]_vars

-----------------------------------------------------------------------------
(* Claims on the fundamentals gate, checked under SpecFund *)

Returned == pc = "done"
Present(x) == x.k = "num"

\* The three-valued reading of a check: "true" and "false" need the value.
Tri(x, holds) == IF ~Present(x) THEN "unknown" ELSE IF holds THEN "true" ELSE "false"
QoQTri(qrev, qeps) ==
    IF (Present(qrev) /\ qrev.v >= 10) \/ (Present(qeps) /\ qeps.v >= 10) THEN "true"
    ELSE IF Present(qrev) \/ Present(qeps) THEN "false"
    ELSE "unknown"
TriChecks(row) ==
    <<Tri(row.debt_to_equity, row.debt_to_equity.v <= 15),
      Tri(row.interest_coverage, row.interest_coverage.v >= 25),
      Tri(row.promoter_pledge_pct, row.promoter_pledge_pct.v <= 200),
      QoQTri(row.qoq_rev_pos_last3, row.qoq_eps_pos_last3)>>

\* C2: the status is FAIL if a check is explicitly false, PASS if all four are
\* explicitly true, and otherwise (a value missing, none violating) UNKNOWN,
\* resolved by the policy: not FAIL when unknowns are allowed.
C2_StatusResolution ==
    Returned =>
        LET t == TriChecks(call.row)
            anyFalse == \E i \in 1..4 : t[i] = "false"
            allTrue == \A i \in 1..4 : t[i] = "true"
        IN  /\ anyFalse => ret.status = "FAIL"
            /\ allTrue => ret.status = "PASS"
            /\ (~anyFalse /\ ~allTrue) =>
                   IF call.allow_unknown THEN ret.status = "UNKNOWN"
                   ELSE ret.status = "FAIL"

\* C3: with debt_to_equity, interest_coverage, promoter_pledge_pct and one of
\* the QoQ counts present, the status is PASS exactly when d/e <= 1.5,
\* icr >= 2.5, pledge <= 20.0 and a QoQ count >= 1 (all inclusive), else FAIL;
\* (1.2, 3.0, 10, rev 1) is PASS and the same record with pledge 25 is FAIL.
C3_Decided(row) ==
    /\ Present(row.debt_to_equity) /\ Present(row.interest_coverage)
    /\ Present(row.promoter_pledge_pct)
    /\ (Present(row.qoq_rev_pos_last3) \/ Present(row.qoq_eps_pos_last3))
C3_Thresholds(row) ==
    /\ row.debt_to_equity.v <= 15
    /\ row.interest_coverage.v >= 25
    /\ row.promoter_pledge_pct.v <= 200
    /\ \/ (Present(row.qoq_rev_pos_last3) /\ row.qoq_rev_pos_last3.v >= 10)
       \/ (Present(row.qoq_eps_pos_last3) /\ row.qoq_eps_pos_last3.v >= 10)
C3_Example(pledge) ==
    [debt_to_equity |-> Num(12), interest_coverage |-> Num(30),
     promoter_pledge_pct |-> Num(pledge),
     qoq_rev_pos_last3 |-> Num(10), qoq_eps_pos_last3 |-> NaN]
C3_PassIffThresholds ==
    (Returned /\ C3_Decided(call.row)) =>
        /\ ret.status = (IF C3_Thresholds(call.row) THEN "PASS" ELSE "FAIL")
        /\ call.row = C3_Example(100) => ret.status = "PASS"
        /\ call.row = C3_Example(250) => ret.status = "FAIL"
\* a record exactly at the three thresholds has been evaluated and passed
C3_Witness ==
    /\ Returned /\ C3_Decided(call.row)
    /\ call.row.debt_to_equity = Num(15) /\ call.row.interest_coverage = Num(25)
    /\ call.row.promoter_pledge_pct = Num(200)
    /\ call.row.qoq_rev_pos_last3 = None /\ call.row.qoq_eps_pos_last3 = Num(10)
    /\ ret.status = "PASS"

-----------------------------------------------------------------------------
(* Tables.  A DataFrame is a record of columns, each a sequence of cells of   *)
(* the same length (row i of the table is position i of every column); a     *)
(* missing table (None) is NoFrame.  A Series is one such sequence.          *)

NoFrame == [none |-> TRUE]
IsFrame(df) == "none" \notin DOMAIN df
FrameLen(df) == Len(df.Date)
HasCols(df, cols) == cols \subseteq DOMAIN df
Last(series) == series[Len(series)]

\* A quotient n/d (d > 0) that the code holds as a float, or nan.
Rat(n, d) == [k |-> "num", n |-> n, d |-> d]
RatNaN == [k |-> "nan", n |-> 0, d |-> 1]

RECURSIVE SumCells(_, _, _)
SumCells(series, a, b) ==
    IF a > b THEN 0
    ELSE IF a = b THEN series[a].v
    ELSE LET m == (a + b) \div 2
         IN  SumCells(series, a, m) + SumCells(series, m + 1, b)

AllNum(series, a, b) == \A i \in a..b : IsNum(series[i])

\* cell > quotient, as Python compares floats: False when either is nan
CellGtRat(c, q) == IsNum(c) /\ q.k = "num" /\ c.v * q.d > q.n

-----------------------------------------------------------------------------
(* src/src/signals.py: indicators *)

\* s.rolling(length, min_periods=length).mean() at position t, as sum / length:
\* nan unless the window t-length+1..t lies in the series and holds no nan
RollingMean(series, length, t) ==
    IF t >= length /\ AllNum(series, t - length + 1, t)
    THEN Rat(SumCells(series, t - length + 1, t), length)
    ELSE RatNaN

sma(series, length) == [t \in 1..Len(series) |-> RollingMean(series, length, t)]

-----------------------------------------------------------------------------
(* src/src/regime.py *)

SMA_INDEX == 200
SMA_BREADTH == 50

\* try: bool(idx_df["Close"].iloc[-1] > sma(idx_df["Close"], 200).iloc[-1])
\* except Exception: False   (no table, no Close column, no rows)
IdxAbove200(idx_df) ==
    IF ~IsFrame(idx_df) \/ ~HasCols(idx_df, {"Close"}) \/ Len(idx_df.Close) = 0
    THEN FALSE
    ELSE CellGtRat(Last(idx_df.Close), Last(sma(idx_df.Close, SMA_INDEX)))

\* (mutant) a symbol with too little history is counted in the sample
BreadthCountedAny(df) == IsFrame(df)

\* "if df is None or len(df) < 50: continue", else total += 1
BreadthCounted(df) == IsFrame(df) /\ FrameLen(df) >= SMA_BREADTH

\* above += int(df["Close"].iloc[-1] > sma(df["Close"], 50).iloc[-1]); a
\* table without a Close column raises after it was counted and is skipped
BreadthAbove(df) ==
    /\ BreadthCounted(df)
    /\ HasCols(df, {"Close"})
    /\ CellGtRat(Last(df.Close), Last(sma(df.Close, SMA_BREADTH)))

\* pct = (above / total * 100.0) if total > 0 else 0.0; pct >= threshold
PctAtLeast(above, total, threshold) ==
    IF total > 0 THEN above * 100 >= threshold * total ELSE 0 >= threshold

market_regime(idx_df, universe_dfs, pct_above_50dma_for_on) ==
    LET idx_above_200 == IdxAbove200(idx_df)
        total == Cardinality({s \in DOMAIN universe_dfs : BreadthCounted(universe_dfs[s])})
        above == Cardinality({s \in DOMAIN universe_dfs : BreadthAbove(universe_dfs[s])})
        on == idx_above_200 /\ PctAtLeast(above, total, pct_above_50dma_for_on)
    IN  IF on THEN "ON" ELSE "OFF"

\* Inputs.  A sanitized table of n bars closing at base, the last at last.
MaxSample == 2
CloseFrame(n, base, last) ==
    [Date |-> [i \in 1..n |-> Num(i)],
     Close |-> [i \in 1..n |-> Num(IF i = n THEN last ELSE base)]]

IndexFrames ==
    {NoFrame} \cup
    {CloseFrame(n, 10, last) : n \in (SMA_INDEX - 1)..(SMA_INDEX + 1), last \in {9, 10, 11}}
SampleFrames ==
    {NoFrame} \cup
    {CloseFrame(n, 10, last) : n \in (SMA_BREADTH - 1)..(SMA_BREADTH + 1), last \in {9, 10, 11}}
Thresholds == {45, 50, 55}

InitRegime ==
    /\ call \in [fn : {"market_regime"}, idx_df : IndexFrames,
                 universe_dfs : [1..MaxSample -> SampleFrames],
                 pct_above_50dma_for_on : Thresholds]
    /\ pc = "call"
    /\ ret = Pending
    /\ locals = NoLocals

CallRegime ==
    /\ call.fn = "market_regime"
    /\ pc = "call"
    /\ pc' = "done"
    /\ ret' = market_regime(call.idx_df, call.universe_dfs, call.pct_above_50dma_for_on)
    /\ UNCHANGED <<call, locals>>

SpecRegime == InitRegime /\ [][CallRegime]_vars

-----------------------------------------------------------------------------
(* Claims on the regime classifier, checked under SpecRegime *)

\* the sum over the last n bars of (last close - close): positive exactly when
\* the last close is above the mean of the last n closes
RECURSIVE Excess(_, _, _)
Excess(closes, a, b) ==
    IF a > b THEN 0
    ELSE IF a = b THEN Last(closes).v - closes[a].v
    ELSE LET m == (a + b) \div 2
         IN  Excess(closes, a, m) + Excess(closes, m + 1, b)
HasBars(df, n) == IsFrame(df) /\ Len(df.Close) >= n
LastAboveMean(df, n) ==
    HasBars(df, n) /\ Excess(df.Close, Len(df.Close) - n + 1, Len(df.Close)) > 0

\* C4: ON iff the index's last close is strictly above its 200-bar SMA and
\* pctAbove50 >= threshold, the percentage being taken over the sampled symbols
\* with at least 50 bars (absent or shorter ones are in neither count); every
\* other label produced is OFF, never CAUTION.
C4_OnIffIndexAndBreadth ==
    Returned =>
        LET u == call.universe_dfs
            den == Cardinality({s \in DOMAIN u : HasBars(u[s], 50)})
            num == Cardinality({s \in DOMAIN u : LastAboveMean(u[s], 50)})
            on == /\ LastAboveMean(call.idx_df, 200)
                  /\ den > 0
                  /\ 100 * num >= call.pct_above_50dma_for_on * den
        IN  ret = (IF on THEN "ON" ELSE "OFF")
\* ON was returned for a sample in which one symbol is too short to count and
\* the only counted symbol is above its average
C4_Witness ==
    /\ Returned /\ ret = "ON"
    /\ \E s \in DOMAIN call.universe_dfs :
           IsFrame(call.universe_dfs[s]) /\ FrameLen(call.universe_dfs[s]) < 50
    /\ Cardinality({s \in DOMAIN call.universe_dfs :
                        HasBars(call.universe_dfs[s], 50)}) = 1

\* C5: an index series of fewer than 200 bars gives the label UNKNOWN,
\* whatever the breadth sample; never ON or OFF.
C5_ShortIndexUnknown ==
    (Returned /\ IsFrame(call.idx_df) /\ FrameLen(call.idx_df) < 200) =>
        ret = "UNKNOWN"

-----------------------------------------------------------------------------
(* src/src/signals.py: detectors *)

\* len(series.dropna())
CountNum(series) == Cardinality({i \in 1..Len(series) : IsNum(series[i])})
NumIn(series, a, b) == {i \in a..b : IsNum(series[i])}

RECURSIVE SumNum(_, _, _)
\* the sum a mean(skipna) is taken from: the values of a..b that are not nan
SumNum(series, a, b) ==
    IF a > b THEN 0
    ELSE IF a = b THEN (IF IsNum(series[a]) THEN series[a].v ELSE 0)
    ELSE LET m == (a + b) \div 2
         IN  SumNum(series, a, m) + SumNum(series, m + 1, b)

\* (mutant) the boundary counted as a thrust
ExceedsMultipleGe(last, multiple, sum, cnt) ==
    IsNum(last) /\ cnt > 0 /\ 10 * last.v * cnt >= multiple * sum

\* vol.iloc[-1] > multiple * prior_avg, prior_avg = sum / cnt (nan when cnt = 0);
\* multiple is carried in tenths
ExceedsMultiple(last, multiple, sum, cnt) ==
    IsNum(last) /\ cnt > 0 /\ 10 * last.v * cnt > multiple * sum

volume_thrust(df, lookback, multiple) ==
    IF ~HasCols(df, {"Volume"}) THEN FALSE
    ELSE LET vol == df.Volume
             n == Len(vol)
         IN  IF CountNum(vol) < lookback + 1 THEN FALSE
             ELSE ExceedsMultiple(vol[n], multiple,
                                  SumNum(vol, n - lookback, n - 1),
                                  Cardinality(NumIn(vol, n - lookback, n - 1)))

THRUST_SHORT == 5
THRUST_LONG == 50

\* five_day_thrust(df) with its defaults short=5, long=50, ratio_min=1.2:
\* (v5 / v50) >= 1.2 with v5 = s5/5 and v50 = s50/50
five_day_thrust(df) ==
    IF ~HasCols(df, {"Volume"}) THEN FALSE
    ELSE LET vol == df.Volume
             v5 == RollingMean(vol, THRUST_SHORT, Len(vol))
             v50 == RollingMean(vol, THRUST_LONG, Len(vol))
         IN  IF CountNum(vol) < THRUST_LONG THEN FALSE
             ELSE IF v5.k = "nan" \/ v50.k = "nan" \/ v50.n = 0 THEN FALSE
             ELSE 10 * v5.n * v50.d >= 12 * v50.n * v5.d

RECURSIVE MinCells(_, _, _)
MinCells(series, a, b) ==
    IF a = b THEN series[a].v
    ELSE LET r == MinCells(series, a, b - 1)
         IN  IF series[b].v < r THEN series[b].v ELSE r

\* close.rolling(w, min_periods=w).min().shift(1) at position t: the lowest of
\* the w closes before t, nan unless all w exist and none is nan
PriorSupport(close, support_window, t) ==
    IF t - 1 >= support_window /\ AllNum(close, t - support_window, t - 1)
    THEN Num(MinCells(close, t - support_window, t - 1))
    ELSE NaN

Max(a, b) == IF a >= b THEN a ELSE b

\* (mutant) a close that only touches the support counted as a breakdown
BreakdownOrTouch(close, support_window, lookback_days) ==
    LET n == Len(close)
    IN  \E t \in (n - lookback_days)..(n - 1) :
            /\ IsNum(close[t])
            /\ IsNum(PriorSupport(close, support_window, t))
            /\ close[t].v <= PriorSupport(close, support_window, t).v

\* (recent["Close"].iloc[:-1] < recent["Support"].iloc[:-1]).any(), recent being
\* the last lookback_days + 1 rows
Breakdown(close, support_window, lookback_days) ==
    LET n == Len(close)
    IN  \E t \in (n - lookback_days)..(n - 1) :
            /\ IsNum(close[t])
            /\ IsNum(PriorSupport(close, support_window, t))
            /\ close[t].v < PriorSupport(close, support_window, t).v

\* recent["Close"].iloc[-1] > (support if pd.notna(support) else -np.inf)
ReclaimToday(close, support_window) ==
    LET n == Len(close)
        sup == PriorSupport(close, support_window, n)
    IN  IsNum(close[n]) /\ (IsNum(sup) => close[n].v > sup.v)

GreenToday(df, require_green) ==
    LET n == Len(df.Close)
    IN  ~require_green \/
        (IsNum(df.Close[n]) /\ IsNum(df.Open[n]) /\ df.Close[n].v > df.Open[n].v)

is_reclaim_setup(df, lookback_days, support_window, require_green) ==
    IF ~HasCols(df, {"Open", "Close"}) THEN FALSE
    ELSE IF Len(df.Close) < Max(lookback_days + support_window, support_window + 1)
    THEN FALSE
    ELSE /\ Breakdown(df.Close, support_window, lookback_days)
         /\ ReclaimToday(df.Close, support_window)
         /\ GreenToday(df, require_green)

-----------------------------------------------------------------------------
(* volume_thrust on small tables, checked under SpecThrust *)

MaxVolBars == 4
MaxLookback == 2
VolCells == {NaN, Num(2), Num(3), Num(4)}
Multiples == {10, 15, 20}

VolFrame(vol) ==
    [Date |-> [i \in 1..Len(vol) |-> Num(i)],
     Close |-> [i \in 1..Len(vol) |-> Num(10)],
     Volume |-> vol]
NoVolumeFrame ==
    [Date |-> [i \in 1..MaxVolBars |-> Num(i)],
     Close |-> [i \in 1..MaxVolBars |-> Num(10)]]
VolFrames ==
    {NoVolumeFrame} \cup
    {VolFrame(vol) : vol \in UNION {[1..n -> VolCells] : n \in 0..MaxVolBars}}

InitThrust ==
    /\ call \in [fn : {"volume_thrust"}, df : VolFrames,
                 lookback : 1..MaxLookback, multiple : Multiples]
    /\ pc = "call"
    /\ ret = Pending
    /\ locals = NoLocals

CallThrust ==
    /\ call.fn = "volume_thrust"
    /\ pc = "call"
    /\ pc' = "done"
    /\ ret' = volume_thrust(call.df, call.lookback, call.multiple)
    /\ UNCHANGED <<call, locals>>

SpecThrust == InitThrust /\ [][CallThrust]_vars

RECURSIVE SetSum(_, _)
SetSum(series, idx) ==
    IF idx = {} THEN 0
    ELSE LET i == CHOOSE j \in idx : TRUE
         IN  series[i].v + SetSum(series, idx \ {i})

\* the volume observations among the lookback rows before the latest one
C9_Preceding(vol, lookback) ==
    {i \in 1..Len(vol) : i >= Len(vol) - lookback /\ i < Len(vol) /\ vol[i] # NaN}
C9_Observations(vol) == {i \in 1..Len(vol) : vol[i] # NaN}

\* C9: volume_thrust is true iff there are at least lookback+1 volume
\* observations and the latest volume is strictly greater than multiple times
\* the mean of the lookback volumes before it (the latest excluded); at equality
\* it is false.
C9_StrictThrust ==
    (Returned /\ "Volume" \in DOMAIN call.df) =>
        LET vol == call.df.Volume
            prev == C9_Preceding(vol, call.lookback)
            enough == Cardinality(C9_Observations(vol)) >= call.lookback + 1
            lhs == 10 * Last(vol).v * Cardinality(prev)
            rhs == call.multiple * SetSum(vol, prev)
        IN  /\ ret = (enough /\ Last(vol) # NaN /\ prev # {} /\ lhs > rhs)
            /\ (enough /\ Last(vol) # NaN /\ lhs = rhs) => ret = FALSE
\* the boundary: enough observations, latest volume equal to multiple x mean
C9_Witness ==
    /\ Returned /\ "Volume" \in DOMAIN call.df
    /\ Len(call.df.Volume) = call.lookback + 1
    /\ \A i \in 1..Len(call.df.Volume) : call.df.Volume[i] # NaN
    /\ 10 * Last(call.df.Volume).v * call.lookback
           = call.multiple * SetSum(call.df.Volume, 1..call.lookback)
    /\ ret = FALSE

-----------------------------------------------------------------------------
(* is_reclaim_setup on small tables, checked under SpecReclaim *)

MaxReclaimBars == 6
MaxLookbackDays == 2
SupportWindows == {2, 4}
ReclaimCloses ==
    {<<10, 9, 8, 7, 20>>} \cup
    UNION {[1..n -> {7, 9, 20}] : n \in 4..MaxReclaimBars}

\* a table with the given closes; the latest bar opens at open, the bar before
\* it has its high prior_high_up above its close, every other bar is flat
ReclaimFrame(closes, open, prior_high_up) ==
    LET n == Len(closes)
    IN  [Date |-> [i \in 1..n |-> Num(i)],
         Open |-> [i \in 1..n |-> Num(IF i = n THEN open ELSE closes[i])],
         High |-> [i \in 1..n |->
                     Num(IF i = n - 1 THEN closes[i] + prior_high_up ELSE closes[i])],
         Close |-> [i \in 1..n |-> Num(closes[i])]]
ReclaimFrames ==
    {ReclaimFrame(c, c[Len(c)] + d, h) : c \in ReclaimCloses, d \in {-1, 1}, h \in {0, 15}}

InitReclaim ==
    /\ call \in [fn : {"is_reclaim_setup"}, df : ReclaimFrames,
                 lookback_days : 0..MaxLookbackDays,
                 support_window : SupportWindows, require_green : BOOLEAN]
    /\ pc = "call"
    /\ ret = Pending
    /\ locals = NoLocals

CallReclaim ==
    /\ call.fn = "is_reclaim_setup"
    /\ pc = "call"
    /\ pc' = "done"
    /\ ret' = is_reclaim_setup(call.df, call.lookback_days, call.support_window,
                               call.require_green)
    /\ UNCHANGED <<call, locals>>

SpecReclaim == InitReclaim /\ [][CallReclaim]_vars

\* the lowest close of the w bars before bar t (bars t-w..t-1 exist)
C10_LowBefore(close, w, t) ==
    CHOOSE m \in {close[i].v : i \in (t - w)..(t - 1)} :
        \A i \in (t - w)..(t - 1) : m <= close[i].v
C10_IsExample(df) ==
    /\ df.Close = [i \in 1..5 |-> Num(<<10, 9, 8, 7, 20>>[i])]
    /\ df.High[4] = Num(7)
    /\ df.Open[5] = Num(19)

\* C10 as stated: true only when, on the two most recent bars, the prior close
\* is below the level and the current close is above the level and above the
\* prior bar's high, the level being the higher of the rolling-minimum close
\* and the moving average of the bars before the current one; false when the
\* history is too short; [10, 9, 8, 7, 20], window 4, prior high 7 gives true.
C10_PriorBarBreakdownAndReclaim ==
    Returned =>
        LET close == call.df.Close
            n == Len(close)
            w == call.support_window
            low == C10_LowBefore(close, w, n)
            sum == SetSum(close, (n - w)..(n - 1))
            below(x) == x < low \/ x * w < sum
            above(x) == x > low /\ x * w > sum
        IN  /\ ret = TRUE =>
                /\ n >= w + 1
                /\ below(close[n - 1].v)
                /\ above(close[n].v)
                /\ close[n].v > call.df.High[n - 1].v
            /\ (C10_IsExample(call.df) /\ w = 4) => ret = TRUE

\* C10 as amended: true only when a close among the lookback_days bars before
\* the latest was below the lowest close of the support_window bars before it,
\* the latest close is above the lowest close of the support_window bars before
\* it and, with require_green, above the latest open; false when the table has
\* fewer than max(lookback_days + support_window, support_window + 1) bars;
\* [10, 9, 8, 7, 20] with window 4 gives false.
C10_BreakdownThenReclaim ==
    Returned =>
        LET close == call.df.Close
            n == Len(close)
            w == call.support_window
        IN  /\ ret = TRUE =>
                /\ n >= call.lookback_days + w /\ n >= w + 1
                /\ \E t \in 1..(n - 1) :
                       /\ t >= n - call.lookback_days /\ t > w
                       /\ close[t].v < C10_LowBefore(close, w, t)
                /\ close[n].v > C10_LowBefore(close, w, n)
                /\ call.require_green => close[n].v > call.df.Open[n].v
            /\ (C10_IsExample(call.df) /\ w = 4) => ret = FALSE
\* a breakdown two bars back followed by a green latest bar above the support
C10_Witness ==
    /\ Returned /\ ret = TRUE
    /\ call.require_green /\ call.lookback_days = 2 /\ call.support_window = 2
    /\ Len(call.df.Close) = 5
    /\ call.df.Close[3].v < C10_LowBefore(call.df.Close, 2, 3)
    /\ call.df.Close[4].v >= C10_LowBefore(call.df.Close, 2, 4)

-----------------------------------------------------------------------------
(* src/src/signals.py: rsi, atr, rising_rsi_band, rs_20d_high *)

\* quotients are compared on cross-multiplied integers (denominators > 0)
RatLt(p, q) == p.n * q.d < q.n * p.d
RatLe(p, q) == p.n * q.d <= q.n * p.d
IsRat(q) == q.k = "num"

\* delta = s.diff(); gain = delta.where(delta > 0, 0.0): the rise into bar t, and
\* 0.0 where there is none (the first bar and nan differences included)
Gain(series, t) ==
    IF t > 1 /\ IsNum(series[t]) /\ IsNum(series[t - 1]) /\ series[t].v > series[t - 1].v
    THEN series[t].v - series[t - 1].v ELSE 0
\* loss = -delta.where(delta < 0, 0.0)
Loss(series, t) ==
    IF t > 1 /\ IsNum(series[t]) /\ IsNum(series[t - 1]) /\ series[t].v < series[t - 1].v
    THEN series[t - 1].v - series[t].v ELSE 0

RECURSIVE GainSum(_, _, _)
GainSum(series, a, b) ==
    IF a > b THEN 0 ELSE Gain(series, b) + GainSum(series, a, b - 1)
RECURSIVE LossSum(_, _, _)
LossSum(series, a, b) ==
    IF a > b THEN 0 ELSE Loss(series, b) + LossSum(series, a, b - 1)

\* out = 100 - 100 / (1 + avg_gain / avg_loss.replace(0, nan)) at position t,
\* before the back-fill, as the fraction G / (G + L) of 100: nan until the
\* window t-length+1..t lies in the series, and nan when avg_loss is 0
RsiRaw(series, length, t) ==
    LET G == GainSum(series, t - length + 1, t)
        L == LossSum(series, t - length + 1, t)
    IN  IF t >= length /\ L # 0 THEN Rat(G, G + L) ELSE RatNaN

\* out.bfill(): a nan takes the next value that is not nan, if there is one
rsi(series, length) ==
    LET n == Len(series)
        raw == SubSeq([t \in 1..n |-> RsiRaw(series, length, t)], 1, n)
    IN  [t \in 1..n |->
            LET later == {u \in t..n : IsRat(raw[u])}
            IN  IF later = {} THEN RatNaN
                ELSE raw[CHOOSE u \in later : \A x \in later : u <= x]]

Abs(x) == IF x < 0 THEN -x ELSE x

\* tr = max(high - low, |high - prev_close|, |low - prev_close|), nan cells
\* skipped (max(axis=1)), nan when every one of the three is nan
TrueRange(df, t) ==
    LET h == df.High[t]
        l == df.Low[t]
        pcl == IF t > 1 THEN df.Close[t - 1] ELSE NaN
        cands == (IF IsNum(h) /\ IsNum(l) THEN {h.v - l.v} ELSE {}) \cup
                 (IF IsNum(h) /\ IsNum(pcl) THEN {Abs(h.v - pcl.v)} ELSE {}) \cup
                 (IF IsNum(l) /\ IsNum(pcl) THEN {Abs(l.v - pcl.v)} ELSE {})
    IN  IF cands = {} THEN NaN
        ELSE Num(CHOOSE m \in cands : \A x \in cands : m >= x)

\* atr: tr.rolling(length, min_periods=length).mean(); an empty Series when a
\* column is missing
atr(df, length) ==
    IF ~HasCols(df, {"High", "Low", "Close"}) THEN << >>
    ELSE LET tr == [t \in 1..Len(df.Close) |-> TrueRange(df, t)]
         IN  [t \in 1..Len(df.Close) |-> RollingMean(tr, length, t)]

RECURSIVE SortRat(_)
\* the values of a sequence of quotients in ascending order
SortRat(seq) ==
    IF Len(seq) = 0 THEN << >>
    ELSE LET i == CHOOSE j \in 1..Len(seq) : \A x \in 1..Len(seq) : RatLe(seq[j], seq[x])
             rest == [x \in 1..(Len(seq) - 1) |-> IF x < i THEN seq[x] ELSE seq[x + 1]]
         IN  <<seq[i]>> \o SortRat(rest)

\* (mutant) rising read as: above the value just before it
GtPrevious(last, tail) ==
    Len(tail) >= 2 /\ RatLt(tail[Len(tail) - 1], last)

\* last >= r_tail.median()
GeMedian(last, tail) ==
    LET srt == SortRat(tail)
        k == Len(tail)
        a == srt[(k + 1) \div 2]
        b == srt[(k \div 2) + 1]
    IN  2 * last.n * a.d * b.d >= (a.n * b.d + b.n * a.d) * last.d

rising_rsi_band(close, low, high, lookback, rsi_len) ==
    LET r == rsi(close, rsi_len)
        n == Len(close)
        valid == Cardinality({t \in 1..n : IsRat(r[t])})
    IN  IF valid < lookback THEN FALSE
        ELSE LET r_tail == [x \in 1..lookback |-> r[n - lookback + x]]
                 last == r[n]
             IN  IF \E x \in 1..lookback : ~IsRat(r_tail[x]) THEN FALSE
                 ELSE /\ low * last.d <= 100 * last.n
                      /\ 100 * last.n <= high * last.d
                      /\ GeMedian(last, r_tail)
                      /\ \E x \in 1..lookback : RatLt(r_tail[x], last)

\* rs = s / i.replace(0, nan) at position t
RsAt(sym_close, idx_close, t) ==
    IF IsNum(sym_close[t]) /\ IsNum(idx_close[t]) /\ idx_close[t].v # 0
    THEN Rat(sym_close[t].v, idx_close[t].v) ELSE RatNaN

\* np.isclose(a, b): |a - b| <= 1e-8 + 1e-5 * |b|, for quotients a, b >= 0
IsClose(a, b) ==
    100000 * Abs(a.n * b.d - b.n * a.d) <= b.n * a.d + ((a.d * b.d) \div 1000)

\* rs_20d_high on two series of one length (the caller aligns them)
rs_20d_high(sym_close, idx_close, window) ==
    LET n == Len(sym_close)
        defined == {t \in 1..n : IsRat(RsAt(sym_close, idx_close, t))}
    IN  IF Cardinality(defined) < window THEN FALSE
        ELSE IF \E t \in (n - window + 1)..n : t \notin defined THEN FALSE
        ELSE LET m == CHOOSE t \in (n - window + 1)..n :
                          \A x \in (n - window + 1)..n :
                              RatLe(RsAt(sym_close, idx_close, x), RsAt(sym_close, idx_close, t))
             IN  IsClose(RsAt(sym_close, idx_close, n), RsAt(sym_close, idx_close, m))

-----------------------------------------------------------------------------
(* src/src/io_utils.py: safe_read_eod.  A CSV file is a table whose Date     *)
(* cells are Num(day) for a date that parses and NaN for one that does not,  *)
(* and whose other cells are Num or NaN (text that is no number).            *)

NEEDED == {"Date", "Open", "High", "Low", "Close", "Volume"}

\* str(NaT): what an unparsable date becomes in the Date column
NaT == [k |-> "nat", v |-> 0]

Rows(df) == IF DOMAIN df = {} THEN 0 ELSE Len(df[CHOOSE c \in DOMAIN df : TRUE])
\* the table restricted to the rows keep[1], keep[2], ... in that order
TakeRows(df, keep) ==
    [c \in DOMAIN df |-> [i \in 1..Len(keep) |-> df[c][keep[i]]]]
Indices(n) == [i \in 1..n |-> i]

\* _normalize_columns: Adj Close stands in for a missing Close, only the needed
\* columns are kept, Date = to_datetime(errors="coerce").dt.date.astype(str)
NormalizeColumns(raw) ==
    LET withClose == IF "Close" \notin DOMAIN raw /\ "Adj Close" \in DOMAIN raw
                     THEN [c \in DOMAIN raw \cup {"Close"} |->
                              IF c = "Close" THEN raw["Adj Close"] ELSE raw[c]]
                     ELSE raw
        keep == DOMAIN withClose \cap NEEDED
    IN  [c \in keep |->
            IF c = "Date"
            THEN [i \in 1..Len(withClose.Date) |->
                     IF IsNum(withClose.Date[i]) THEN withClose.Date[i] ELSE NaT]
            ELSE withClose[c]]

\* _coerce_numeric: dropna(subset=["Close"]), then dropna(subset=["Date"]);
\* the Date column holds strings by now, so the second drops nothing
CoerceNumeric(df) ==
    IF "Close" \in DOMAIN df
    THEN LET Kept(i) == IsNum(df.Close[i])
         IN  TakeRows(df, SelectSeq(Indices(Rows(df)), Kept))
    ELSE df

\* Date strings in ascending order: ISO dates by day, "NaT" after every date
DateLt(a, b) == (IsNum(a) /\ IsNum(b) /\ a.v < b.v) \/ (IsNum(a) /\ ~IsNum(b))

\* _sort_unique: drop_duplicates(subset=["Date"]) keeps the first row of each
\* date; sort_values("Date").reset_index(drop=True)
SortUnique(df) ==
    IF "Date" \notin DOMAIN df THEN df
    ELSE LET First(i) == \A j \in 1..(i - 1) : df.Date[j] # df.Date[i]
             u == TakeRows(df, SelectSeq(Indices(Rows(df)), First))
             m == Rows(u)
         IN  IF \A i \in 1..(m - 1) : DateLt(u.Date[i], u.Date[i + 1]) THEN u
             ELSE TakeRows(u, [p \in 1..m |->
                      CHOOSE i \in 1..m :
                          Cardinality({j \in 1..m : DateLt(u.Date[j], u.Date[i])}) = p - 1])

\* files maps a file name to its table, or to NoFrame when there is no file
safe_read_eod(files, symbol) ==
    IF symbol \notin DOMAIN files \/ ~IsFrame(files[symbol]) THEN NoFrame
    ELSE LET df == SortUnique(CoerceNumeric(NormalizeColumns(files[symbol])))
         IN  IF ~({"Close", "Date"} \subseteq DOMAIN df) \/ Rows(df) = 0 THEN NoFrame
             ELSE df

-----------------------------------------------------------------------------
(* src/src/watchlist_builder.py *)

NUMERIC_COLS == {"Open", "High", "Low", "Close", "Volume"}

\* _coerce_ohlcv: None without the five columns; rows whose five cells are all
\* nan are dropped; None when no row is left
coerce_ohlcv(df) ==
    IF ~IsFrame(df) THEN NoFrame
    ELSE IF ~(NUMERIC_COLS \subseteq DOMAIN df) THEN NoFrame
    ELSE LET SomeNum(i) == \E c \in NUMERIC_COLS : IsNum(df[c][i])
             out == TakeRows(df, SelectSeq(Indices(Rows(df)), SomeNum))
         IN  IF Rows(out) = 0 THEN NoFrame ELSE out

\* round(x, places) of a quotient x >= 0, in units of 1/scale (ties to even)
RoundRat(q, scale) ==
    LET num == q.n * scale
        fl == num \div q.d
        twice == 2 * (num - fl * q.d)
    IN  IF twice > q.d THEN fl + 1
        ELSE IF twice < q.d THEN fl
        ELSE IF fl % 2 = 0 THEN fl ELSE fl + 1

\* _last(series): float(series.iloc[-1]), nan when the series is empty
LastRat(series) == IF Len(series) = 0 THEN RatNaN ELSE Last(series)

INDEX_SYMBOL == "NIFTY50"
MIN_BARS == 60
\* config.RECLAIM_LOOKBACK_DAYS, which build_watchlist does not read
RECLAIM_LOOKBACK_DAYS == 126
RS_WINDOW == 20

\* the parameters of the detectors, by name
ReclaimParams == {"df", "lookback_days", "support_window", "require_green"}
VolumeThrustParams == {"df", "lookback", "multiple"}
RisingRsiParams == {"close", "low", "high", "lookback", "rsi_len"}

\* a call binds its keywords when the function has parameters of those names;
\* otherwise it raises TypeError, which the caller's "except Exception" catches
Binds(params, keywords) == keywords \subseteq params

\* atr_pct = (atr_val / _last(close)) * 100.0 if np.isfinite(atr_val) else nan;
\* a zero close raises ZeroDivisionError (caught: nan)
AtrPct(df) ==
    LET atr_val == LastRat(atr(df, 14))
        c == Last(df.Close)
    IN  IF ~IsRat(atr_val) \/ ~IsNum(c) \/ c.v = 0 THEN RatNaN
        ELSE Rat(atr_val.n * 100, atr_val.d * c.v)

\* rs_20d_high(close.align(idx_close, join="inner")[0],
\*             idx_close.align(close, join="inner")[0]): both series carry the
\* row numbers 0, 1, ... as labels, so the inner join keeps the rows both have
Rs20Ok(close, idx_close) ==
    IF IsFrame(idx_close) /\ Len(idx_close.Close) >= 20 /\ Len(close) >= 20
    THEN LET m == IF Len(close) <= Len(idx_close.Close)
                  THEN Len(close) ELSE Len(idx_close.Close)
         IN  rs_20d_high(SubSeq(close, 1, m), SubSeq(idx_close.Close, 1, m), RS_WINDOW)
    ELSE FALSE

\* row.get(column) when row is the whole fundamentals table: a column
Column(cells) == [k |-> "column", v |-> 0, cells |-> cells]
FundColumns ==
    {"debt_to_equity", "interest_coverage", "promoter_pledge_pct",
     "qoq_rev_pos_last3", "qoq_eps_pos_last3"}
TableAsRow(fund_df) == [c \in FundColumns |-> Column(fund_df[c])]

\* bool(x) of a mapping: it has a key; of a string: it is not empty
TruthyDict(d) == DOMAIN d # {}
TruthyStr(x) == x # ""

\* fund_ok = bool(fundamentals_pass(fund_df, sym)): the table is passed as row
\* and the symbol as allow_unknown
FundOk(fund_df, sym) == TruthyDict(fundamentals_pass(TableAsRow(fund_df), TruthyStr(sym)))

\* the locals of one loop iteration, lines 93-142
Evaluate(df, idx_close, fund_df, sym) ==
    LET close == df.Close
        vt_a == IF Binds(VolumeThrustParams, {"lookback", "mult"})
                THEN volume_thrust(df, 5, 13) ELSE FALSE
        vt_b == five_day_thrust(df)
    IN  [close_last |-> Last(close),
         atr_pct |-> AtrPct(df),
         rsi_val |-> LastRat(rsi(close, 14)),
         reclaim_ok |-> IF Binds(ReclaimParams, {"lookback_days", "ma_len"})
                        THEN is_reclaim_setup(df, 20, 20, TRUE) ELSE FALSE,
         vt_a |-> vt_a,
         vt_b |-> vt_b,
         vol_ok |-> vt_a \/ vt_b,
         rsi_band_ok |-> IF Binds(RisingRsiParams, {"lower", "upper"})
                         THEN rising_rsi_band(close, 20, 38, 10, 14) ELSE FALSE,
         rs20_ok |-> Rs20Ok(close, idx_close),
         fund_ok |-> FundOk(fund_df, sym)]

\* notes, before ", ".join (the flags are spelled in ASCII here)
Notes(e) ==
    (IF e.vt_a THEN <<"VolThrust5x1.3">> ELSE << >>) \o
    (IF e.vt_b THEN <<"5DThrust">> ELSE << >>) \o
    <<"RSI up (20-38)", "RS 20D High", "Reclaim", "Fund OK">>

OutColumns ==
    <<"Symbol", "Close", "ATR%", "RSI", "RS20DHigh", "VolThrust", "Reclaim",
      "Fundamentals", "Notes">>

\* the row appended for an accepted symbol: ATR% in hundredths (round(x, 2)), RSI
\* in tenths (round(x, 1)), each nan when not finite
OutRow(sym, e) ==
    ("Symbol" :> sym) @@ ("Close" :> e.close_last) @@
    ("ATR%" :> IF IsRat(e.atr_pct) THEN Num(RoundRat(e.atr_pct, 100)) ELSE NaN) @@
    ("RSI" :> IF IsRat(e.rsi_val)
              THEN Num(RoundRat(Rat(100 * e.rsi_val.n, e.rsi_val.d), 10)) ELSE NaN) @@
    ("RS20DHigh" :> e.rs20_ok) @@ ("VolThrust" :> e.vol_ok) @@
    ("Reclaim" :> e.reclaim_ok) @@ ("Fundamentals" :> e.fund_ok) @@
    ("Notes" :> Notes(e))

\* if all([reclaim_ok, vol_ok, rsi_band_ok, rs20_ok, fund_ok])
Accepted(e) == e.reclaim_ok /\ e.vol_ok /\ e.rsi_band_ok /\ e.rs20_ok /\ e.fund_ok

Decision(out_rows, sym, e) ==
    IF Accepted(e) THEN Append(out_rows, OutRow(sym, e)) ELSE out_rows

\* one sort key in ascending order, nan last
CellBefore(a, b) == (IsNum(a) /\ IsNum(b) /\ a.v < b.v) \/ (IsNum(a) /\ ~IsNum(b))
CellAfter(a, b) == (IsNum(a) /\ IsNum(b) /\ a.v > b.v) \/ (IsNum(a) /\ ~IsNum(b))

\* by=["RS20DHigh", "VolThrust", "ATR%", "RSI"], ascending=[False, True, True,
\* False]: a sorts strictly before b
RowBefore(a, b) ==
    \/ a["RS20DHigh"] /\ ~b["RS20DHigh"]
    \/ /\ a["RS20DHigh"] = b["RS20DHigh"]
       /\ \/ ~a["VolThrust"] /\ b["VolThrust"]
          \/ /\ a["VolThrust"] = b["VolThrust"]
             /\ \/ CellBefore(a["ATR%"], b["ATR%"])
                \/ /\ a["ATR%"] = b["ATR%"]
                   /\ CellAfter(a["RSI"], b["RSI"])

RECURSIVE StableSort(_)
\* kind="mergesort": rows that compare equal keep their order
StableSort(rows) ==
    IF Len(rows) <= 1 THEN rows
    ELSE LET head == StableSort(SubSeq(rows, 1, Len(rows) - 1))
             x == rows[Len(rows)]
             stay == {i \in 1..Len(head) : ~RowBefore(x, head[i])}
             k == IF stay = {} THEN 0 ELSE CHOOSE i \in stay : \A j \in stay : j <= i
         IN  SubSeq(head, 1, k) \o <<x>> \o SubSeq(head, k + 1, Len(head))

\* lines 165-181: the empty table, or the rows sorted
Ranked(out_rows) ==
    [columns |-> OutColumns,
     rows |-> IF Len(out_rows) = 0 THEN << >> ELSE StableSort(out_rows)]

-----------------------------------------------------------------------------
(* build_watchlist, one step per phase: the index is loaded, each symbol of  *)
(* the list is scanned in turn, the rows are ranked and returned.            *)

NoEval == [sym |-> ""]

\* (mutant) the index used for relative strength however short it is
IdxCloseAnyLength(idx_df) ==
    IF ~IsFrame(idx_df) THEN NoFrame ELSE [Close |-> idx_df.Close]

\* lines 75-81: idx_close is None when there is no index table or it has fewer
\* than 60 bars
IdxClose(idx_df) ==
    IF ~IsFrame(idx_df) \/ Rows(idx_df) < MIN_BARS THEN NoFrame
    ELSE [Close |-> idx_df.Close]

LoadIndex ==
    /\ call.fn = "build_watchlist"
    /\ pc = "call"
    /\ pc' = "loop"
    /\ locals' = [idx_close |-> IdxClose(coerce_ohlcv(safe_read_eod(call.files, call.index_symbol))),
                  i |-> 1, out_rows |-> << >>, last |-> NoEval]
    /\ UNCHANGED <<call, ret>>

\* (mutant) the loop body without the reset "vt_b = False": the flag of the
\* symbol evaluated before stays set
ScanStepCarry(st, files, fund_df, sym) ==
    LET df == coerce_ohlcv(safe_read_eod(files, sym))
        own == Evaluate(df, st.idx_close, fund_df, sym)
        vt_b == own.vt_b \/ (st.last.sym # "" /\ st.last.e.vt_b)
        e == [own EXCEPT !.vt_b = vt_b, !.vol_ok = own.vt_a \/ vt_b]
    IN  IF ~IsFrame(df) \/ Rows(df) < MIN_BARS
        THEN [st EXCEPT !.i = @ + 1]
        ELSE [st EXCEPT !.i = @ + 1,
                        !.out_rows = Decision(@, sym, e),
                        !.last = [sym |-> sym, e |-> e]]

\* (mutant) the loop body with the minimum raised to the reclaim lookback
ScanStepReclaimMin(st, files, fund_df, sym) ==
    LET df == coerce_ohlcv(safe_read_eod(files, sym))
        e == Evaluate(df, st.idx_close, fund_df, sym)
    IN  IF ~IsFrame(df) \/ Rows(df) < Max(MIN_BARS, RECLAIM_LOOKBACK_DAYS)
        THEN [st EXCEPT !.i = @ + 1]
        ELSE [st EXCEPT !.i = @ + 1,
                        !.out_rows = Decision(@, sym, e),
                        !.last = [sym |-> sym, e |-> e]]

\* lines 83-163: the body of "for sym in symbols" on the locals st: a symbol
\* without a usable table of at least 60 bars is passed over
ScanStep(st, files, fund_df, sym) ==
    LET df == coerce_ohlcv(safe_read_eod(files, sym))
        e == Evaluate(df, st.idx_close, fund_df, sym)
    IN  IF ~IsFrame(df) \/ Rows(df) < MIN_BARS
        THEN [st EXCEPT !.i = @ + 1]
        ELSE [st EXCEPT !.i = @ + 1,
                        !.out_rows = Decision(@, sym, e),
                        !.last = [sym |-> sym, e |-> e]]

ScanSymbol ==
    /\ call.fn = "build_watchlist"
    /\ pc = "loop"
    /\ locals.i <= Len(call.symbols)
    /\ locals' = ScanStep(locals, call.files, call.fund_df, call.symbols[locals.i])
    /\ UNCHANGED <<pc, call, ret>>

\* lines 165-181
ReturnTable ==
    /\ call.fn = "build_watchlist"
    /\ pc = "loop"
    /\ locals.i > Len(call.symbols)
    /\ pc' = "done"
    /\ ret' = Ranked(locals.out_rows)
    /\ UNCHANGED <<call, locals>>

-----------------------------------------------------------------------------
(* The files and tables a scan is run on *)

\* a clean CSV of n daily bars: close, open and volume by position; the high
\* and the low of a bar are the higher and the lower of its open and close
Table(n, C, O, V) ==
    [Date |-> [i \in 1..n |-> Num(i)],
     Open |-> [i \in 1..n |-> Num(O[i])],
     High |-> [i \in 1..n |-> Num(Max(O[i], C[i]))],
     Low |-> [i \in 1..n |-> Num(IF O[i] <= C[i] THEN O[i] ELSE C[i])],
     Close |-> [i \in 1..n |-> Num(C[i])],
     Volume |-> [i \in 1..n |-> Num(V[i])]]

\* closes at 30, a drop to 20 thirteen bars ago, a green last bar back to 24 on
\* ten times the usual volume
Setup(n) ==
    LET C == [i \in 1..n |-> IF i <= n - 14 THEN 30 ELSE IF i < n THEN 20 ELSE 24]
        O == [i \in 1..n |-> IF i = n THEN 20 ELSE C[i]]
        V == [i \in 1..n |-> IF i = n THEN 100 ELSE 10]
    IN  Table(n, C, O, V)
\* nothing happens
Flat(n) ==
    LET C == [i \in 1..n |-> 30]
        V == [i \in 1..n |-> 10]
    IN  Table(n, C, C, V)
\* an index at 100 that halves on its last bar
IdxDrop(n) ==
    LET C == [i \in 1..n |-> IF i < n THEN 100 ELSE 50]
        V == [i \in 1..n |-> 10]
    IN  Table(n, C, C, V)
\* a file in which no close is a number: no row is left after cleaning
NoCloses ==
    [Date |-> <<Num(1), Num(2)>>, Open |-> <<Num(1), Num(1)>>, High |-> <<Num(1), Num(1)>>,
     Low |-> <<Num(1), Num(1)>>, Close |-> <<NaN, NaN>>, Volume |-> <<Num(1), Num(1)>>]
\* a short file with a repeated date, a row without close, a date that does not
\* parse, out of order
Unclean ==
    [Date |-> <<Num(3), Num(1), Num(3), NaN, Num(2)>>,
     Open |-> <<Num(30), Num(30), Num(31), Num(30), Num(30)>>,
     High |-> <<Num(30), Num(30), Num(31), Num(30), Num(30)>>,
     Low |-> <<Num(30), Num(30), Num(31), Num(30), Num(30)>>,
     Close |-> <<Num(30), Num(30), Num(31), Num(30), NaN>>,
     Volume |-> <<Num(10), Num(10), Num(10), Num(10), Num(10)>>]

MaxSymbols == 2
Names == {"AAA", "BBB"}
\* the symbol list, as given: a name may be listed twice
SymbolLists == UNION {[1..n -> Names] : n \in 1..MaxSymbols}

SymbolFiles ==
    {NoFrame, Unclean, Flat(MIN_BARS), Setup(MIN_BARS - 1), Setup(MIN_BARS),
     Setup(RECLAIM_LOOKBACK_DAYS)}
IndexFiles ==
    {NoFrame, NoCloses, IdxDrop(MIN_BARS - 1), IdxDrop(RECLAIM_LOOKBACK_DAYS)}

\* fundamentals rows (values in tenths): passing, and failing on the pledge
PassRow == <<Num(12), Num(30), Num(100), Num(10), NaN>>
FailRow == <<Num(12), Num(30), Num(250), Num(10), NaN>>
FundTable(syms, rowOf) ==
    [Symbol |-> syms,
     debt_to_equity |-> [i \in 1..Len(syms) |-> rowOf[i][1]],
     interest_coverage |-> [i \in 1..Len(syms) |-> rowOf[i][2]],
     promoter_pledge_pct |-> [i \in 1..Len(syms) |-> rowOf[i][3]],
     qoq_rev_pos_last3 |-> [i \in 1..Len(syms) |-> rowOf[i][4]],
     qoq_eps_pos_last3 |-> [i \in 1..Len(syms) |-> rowOf[i][5]]]
\* no row at all, a row for each name
FundTables ==
    {FundTable(<< >>, << >>),
     FundTable(<<"AAA", "BBB">>, <<PassRow, FailRow>>)}

\* the cache directory holds a file (or none) for the index and for each listed
\* symbol
Init ==
    /\ \E symbols \in SymbolLists, idx \in IndexFiles, fund_df \in FundTables :
       \E listed \in [{symbols[i] : i \in DOMAIN symbols} -> SymbolFiles] :
           call = [fn |-> "build_watchlist", symbols |-> symbols, fund_df |-> fund_df,
                   files |-> listed @@ (INDEX_SYMBOL :> idx),
                   index_symbol |-> INDEX_SYMBOL]
    /\ pc = "call"
    /\ ret = Pending
    /\ locals = NoLocals

Next == LoadIndex \/ ScanSymbol \/ ReturnTable

Spec == Init /\ [][Next]_vars

-----------------------------------------------------------------------------
(* Claims on a whole scan, checked under Spec *)

\* the table build_watchlist reads for a name
Cleaned(name) == coerce_ohlcv(safe_read_eod(call.files, name))
InOutput(sym) == \E k \in DOMAIN ret.rows : ret.rows[k]["Symbol"] = sym

\* the fundamentals record of a symbol: its row of the table
FundRowOf(fund_df, sym) ==
    LET k == CHOOSE i \in DOMAIN fund_df.Symbol : fund_df.Symbol[i] = sym
    IN  [c \in FundColumns |-> fund_df[c][k]]
HasFundRow(fund_df, sym) == \E i \in DOMAIN fund_df.Symbol : fund_df.Symbol[i] = sym

\* the five gates on a symbol's table, each detector called as
\* src/src/signals.py and src/src/fundamentals.py define it, with the values
\* build_watchlist names (20 days, 5 bars at 1.3 times, the band 20 to 38)
C1_FiveGates(sym) ==
    LET df == Cleaned(sym)
        idx == Cleaned(call.index_symbol)
    IN  /\ is_reclaim_setup(df, 20, 20, TRUE)
        /\ volume_thrust(df, 5, 13) \/ five_day_thrust(df)
        /\ rising_rsi_band(df.Close, 20, 38, 10, 14)
        /\ IsFrame(idx) /\ Rows(idx) >= MIN_BARS /\ Rs20Ok(df.Close, [Close |-> idx.Close])
        /\ HasFundRow(call.fund_df, sym)
        /\ fundamentals_pass(FundRowOf(call.fund_df, sym), FALSE).status = "PASS"

C1_EnoughBars(sym) ==
    IsFrame(Cleaned(sym)) /\ Rows(Cleaned(sym)) >= RECLAIM_LOOKBACK_DAYS

\* C1: when build_watchlist has returned, every listed symbol with enough bars
\* is in the output list if and only if all five gates hold for it: reclaim
\* setup, volume thrust, rising RSI in the band, relative-strength new high,
\* fundamentals status PASS.
C1_AcceptIffFiveGates ==
    Returned =>
        \A i \in DOMAIN call.symbols :
            C1_EnoughBars(call.symbols[i]) =>
                (InOutput(call.symbols[i]) <=> C1_FiveGates(call.symbols[i]))

\* the index table is missing, has no row after cleaning, or has too few bars
C6_IndexUnusable ==
    LET idx == Cleaned(call.index_symbol)
    IN  ~IsFrame(idx) \/ Rows(idx) < MIN_BARS

\* C6 as stated: with the index series absent or unusable the run fails; it
\* never completes with a candidate list.
C6_FailsWithoutIndex == C6_IndexUnusable => ~Returned

\* C6: with the index series absent or unusable (no file, no row after
\* cleaning, fewer than 60 bars) the scan goes on without relative strength:
\* idx_close is None, the relative-strength gate is false for every symbol
\* evaluated, and the run completes with the empty candidate table.
C6_ScansWithoutRelativeStrength ==
    (C6_IndexUnusable /\ pc # "call") =>
        /\ locals.idx_close = NoFrame
        /\ locals.last.sym # "" => ~locals.last.e.rs20_ok
        /\ locals.out_rows = << >>
        /\ Returned => (ret.columns = OutColumns /\ ret.rows = << >>)
\* a run on an index of 59 bars has evaluated a 60-bar symbol that outran the
\* index on its last bar, and has returned
C6_Witness ==
    /\ Returned
    /\ call.files[call.index_symbol] = IdxDrop(MIN_BARS - 1)
    /\ locals.last.sym # ""
    /\ call.files[locals.last.sym] = Setup(MIN_BARS)
    /\ ~locals.last.e.rs20_ok
    /\ ret.rows = << >>

-----------------------------------------------------------------------------
(* The decision and the ranking, src/src/watchlist_builder.py lines 144-181,  *)
(* on their own.  Every gate of an accepted symbol is true, and a scan never  *)
(* finds reclaim_ok or rsi_band_ok true (their calls do not bind), so the     *)
(* scan itself reaches the ranking with no row.  SpecSelect runs the same     *)
(* Decision and Ranked on evaluations in which the gates take both values.    *)

MaxCandidates == 2

\* ATR% and RSI of an evaluated symbol: nan, or one of two values
AtrPcts == {RatNaN, Rat(5, 2), Rat(3, 1)}
RsiVals == {RatNaN, Rat(1, 4), Rat(3, 10)}

Gates(reclaim_ok, vt_a, vt_b, rsi_band_ok, rs20_ok, fund_ok, atr_pct, rsi_val) ==
    [close_last |-> Num(24), atr_pct |-> atr_pct, rsi_val |-> rsi_val,
     reclaim_ok |-> reclaim_ok, vt_a |-> vt_a, vt_b |-> vt_b, vol_ok |-> vt_a \/ vt_b,
     rsi_band_ok |-> rsi_band_ok, rs20_ok |-> rs20_ok, fund_ok |-> fund_ok]

\* all gates true, over the ATR% and RSI values; one gate false
Evaluations ==
    {Gates(TRUE, TRUE, FALSE, TRUE, TRUE, TRUE, a, r) : a \in AtrPcts, r \in RsiVals} \cup
    {Gates(TRUE, FALSE, TRUE, TRUE, TRUE, TRUE, Rat(5, 2), Rat(1, 4)),
     Gates(FALSE, TRUE, FALSE, TRUE, TRUE, TRUE, Rat(5, 2), Rat(1, 4)),
     Gates(TRUE, FALSE, FALSE, TRUE, TRUE, TRUE, Rat(5, 2), Rat(1, 4)),
     Gates(TRUE, TRUE, FALSE, FALSE, TRUE, TRUE, Rat(5, 2), Rat(1, 4)),
     Gates(TRUE, TRUE, FALSE, TRUE, FALSE, TRUE, Rat(5, 2), Rat(1, 4)),
     Gates(TRUE, TRUE, FALSE, TRUE, TRUE, FALSE, Rat(5, 2), Rat(1, 4))}

InitSelect ==
    /\ \E n \in 1..MaxCandidates :
           call \in [fn : {"select"}, evals : [1..n -> [sym : Names, e : Evaluations]]]
    /\ pc = "loop"
    /\ ret = Pending
    /\ locals = [i |-> 1, out_rows |-> << >>]

\* lines 144-163 for the next evaluated symbol
DecideSymbol ==
    /\ call.fn = "select"
    /\ pc = "loop"
    /\ locals.i <= Len(call.evals)
    /\ locals' = [locals EXCEPT !.i = @ + 1,
                                !.out_rows = Decision(@, call.evals[locals.i].sym,
                                                      call.evals[locals.i].e)]
    /\ UNCHANGED <<pc, call, ret>>

\* lines 165-181
RankRows ==
    /\ call.fn = "select"
    /\ pc = "loop"
    /\ locals.i > Len(call.evals)
    /\ pc' = "done"
    /\ ret' = Ranked(locals.out_rows)
    /\ UNCHANGED <<call, locals>>

NextSelect == DecideSymbol \/ RankRows

SpecSelect == InitSelect /\ [][NextSelect]_vars

-----------------------------------------------------------------------------
(* Claims on the candidate list, checked under SpecSelect *)

\* symbol names in ascending order
C7_NameRank(sym) == IF sym = "AAA" THEN 1 ELSE 2

\* row a belongs after row b: by relative-strength new high (true first), then
\* ATR% ascending, then symbol ascending (rows with a nan ATR% are compared on
\* the symbol only when both are nan)
C7_BelongsAfter(a, b) ==
    \/ ~a["RS20DHigh"] /\ b["RS20DHigh"]
    \/ /\ a["RS20DHigh"] = b["RS20DHigh"]
       /\ \/ IsNum(a["ATR%"]) /\ IsNum(b["ATR%"]) /\ a["ATR%"].v > b["ATR%"].v
          \/ /\ a["ATR%"] = b["ATR%"]
             /\ C7_NameRank(a["Symbol"]) > C7_NameRank(b["Symbol"])

C8_LevelColumns == {"Entry", "Stop", "R1", "R2"}

-----------------------------------------------------------------------------
(* rising_rsi_band on short close series, checked under SpecBand *)

MaxBandBars == 6
BandCloses == {Num(10), Num(11), Num(12), Num(13)}
BandSeries == UNION {[1..n -> BandCloses] : n \in 3..MaxBandBars}
\* the band the scanner asks for, and one whose ends short series reach
Bands == {<<20, 38>>, <<25, 50>>}
BandLookbacks == {2, 3}
BandRsiLen == 2

InitBand ==
    /\ call \in [fn : {"rising_rsi_band"}, close : BandSeries, band : Bands,
                 lookback : BandLookbacks, rsi_len : {BandRsiLen}]
    /\ pc = "call"
    /\ ret = Pending
    /\ locals = NoLocals

CallBand ==
    /\ call.fn = "rising_rsi_band"
    /\ pc = "call"
    /\ pc' = "done"
    /\ ret' = rising_rsi_band(call.close, call.band[1], call.band[2], call.lookback,
                              call.rsi_len)
    /\ UNCHANGED <<call, locals>>

SpecBand == InitBand /\ [][CallBand]_vars

\* the RSI series of the call and the positions of its last lookback values
C11_Rsi == rsi(call.close, call.rsi_len)
C11_Window == (Len(call.close) - call.lookback + 1)..Len(call.close)
C11_Defined == Len(call.close) >= call.lookback /\ \A t \in C11_Window : IsRat(C11_Rsi[t])
C11_InBand(q) == call.band[1] * q.d <= 100 * q.n /\ 100 * q.n <= call.band[2] * q.d
\* v is the j-th smallest value of the window
C11_IsSmallest(v, j) ==
    /\ Cardinality({t \in C11_Window : RatLt(C11_Rsi[t], v)}) < j
    /\ j <= Cardinality({t \in C11_Window : RatLe(C11_Rsi[t], v)})
\* q >= the median of the window: the middle value, or the mean of the two
C11_AtLeastMedian(q) ==
    \E a, b \in C11_Window :
        /\ C11_IsSmallest(C11_Rsi[a], (call.lookback + 1) \div 2)
        /\ C11_IsSmallest(C11_Rsi[b], (call.lookback \div 2) + 1)
        /\ 2 * q.n * C11_Rsi[a].d * C11_Rsi[b].d >=
               (C11_Rsi[a].n * C11_Rsi[b].d + C11_Rsi[b].n * C11_Rsi[a].d) * q.d

\* C11 as stated: rising_rsi_band is true exactly when the latest RSI lies in
\* [low, high] and is strictly greater than the RSI just before it; older values
\* of the window do not matter.
C11_AbovePreviousOnly ==
    Returned =>
        (ret <=> /\ IsRat(C11_Rsi[Len(call.close)])
                 /\ IsRat(C11_Rsi[Len(call.close) - 1])
                 /\ C11_InBand(C11_Rsi[Len(call.close)])
                 /\ RatLt(C11_Rsi[Len(call.close) - 1], C11_Rsi[Len(call.close)]))

\* C11: rising_rsi_band is true exactly when the last lookback RSI values are
\* all defined, the latest lies in [low, high] inclusive, is at least the median
\* of those lookback values and is strictly above the smallest of them.
C11_AboveMedianAndMin ==
    Returned =>
        (ret <=> /\ C11_Defined
                 /\ C11_InBand(C11_Rsi[Len(call.close)])
                 /\ C11_AtLeastMedian(C11_Rsi[Len(call.close)])
                 /\ \E t \in C11_Window : RatLt(C11_Rsi[t], C11_Rsi[Len(call.close)]))
\* true on a window of three whose latest value is not above the one before it
C11_Witness ==
    /\ Returned /\ ret = TRUE /\ call.lookback = 3
    /\ C11_Defined
    /\ RatLe(C11_Rsi[Len(call.close)], C11_Rsi[Len(call.close) - 1])

-----------------------------------------------------------------------------
(* rsi on short close series, checked under SpecRsi *)

MaxRsiBars == 5
RsiCloses == {Num(10), Num(11), Num(12)}
RsiSeries == UNION {[1..n -> RsiCloses] : n \in 1..MaxRsiBars}
RsiLengths == {2, 3}

InitRsi ==
    /\ call \in [fn : {"rsi"}, series : RsiSeries, length : RsiLengths]
    /\ pc = "call"
    /\ ret = Pending
    /\ locals = NoLocals

CallRsi ==
    /\ call.fn = "rsi"
    /\ pc = "call"
    /\ pc' = "done"
    /\ ret' = rsi(call.series, call.length)
    /\ UNCHANGED <<call, locals>>

SpecRsi == InitRsi /\ [][CallRsi]_vars

\* no close of the window of length differences ending at t is below the close
\* before it: the average loss over the window is zero
C12_NoLoss(t) ==
    \A u \in (t - call.length + 1)..t : call.series[u].v >= call.series[u - 1].v

\* C12: on a series of at least length+1 closes every RSI value at a position
\* with enough history (length differences) is defined and lies in [0, 100],
\* and it is 100 where the average loss over the window is zero.
C12_DefinedWithinBounds ==
    Returned =>
        \A t \in (call.length + 1)..Len(call.series) :
            /\ IsRat(ret[t])
            /\ 0 <= ret[t].n /\ ret[t].n <= ret[t].d
            /\ C12_NoLoss(t) => ret[t].n = ret[t].d

\* C13: the RSI series is undefined at every position before length
\* observations exist (warm-up entries are not filled from later positions), and
\* so is the SMA over length.
C13_WarmupUndefined ==
    Returned =>
        \A t \in 1..Len(call.series) :
            t < call.length =>
                /\ ~IsRat(ret[t])
                /\ ~IsRat(sma(call.series, call.length)[t])

-----------------------------------------------------------------------------
(* atr on short tables, checked under SpecAtr *)

MaxAtrBars == 3
AtrPrices == {Num(9), Num(10), Num(12)}
\* High, Low and Close of n bars; a High may lie below its Low
AtrFrames ==
    UNION {[High : [1..n -> AtrPrices], Low : [1..n -> AtrPrices],
            Close : [1..n -> {Num(9), Num(10)}]] : n \in 1..MaxAtrBars}
AtrLengths == {1, 2}

InitAtr ==
    /\ call \in [fn : {"atr"}, df : AtrFrames, length : AtrLengths]
    /\ pc = "call"
    /\ ret = Pending
    /\ locals = NoLocals

CallAtr ==
    /\ call.fn = "atr"
    /\ pc = "call"
    /\ pc' = "done"
    /\ ret' = atr(call.df, call.length)
    /\ UNCHANGED <<call, locals>>

SpecAtr == InitAtr /\ [][CallAtr]_vars

\* C14: every defined value of atr(df, length) is >= 0, the first bar and bars
\* whose High is below their Low included.
C14_AtrNonNegative ==
    Returned => \A t \in DOMAIN ret : IsRat(ret[t]) => ret[t].n >= 0

-----------------------------------------------------------------------------
(* safe_read_eod on short files, checked under SpecSanitize *)

MaxCsvRows == 3
\* a date that parses (a day number) or does not; a close that is a number or
\* is not
CsvDates == {Num(1), Num(2), NaN}
CsvCloses == {Num(5), NaN}
Filled(n) == [i \in 1..n |-> Num(5)]
CsvFiles ==
    {NoFrame} \cup
    UNION {{[Date |-> dates, Open |-> Filled(n), High |-> Filled(n), Low |-> Filled(n),
             Close |-> closes, Volume |-> Filled(n)] :
                dates \in [1..n -> CsvDates], closes \in [1..n -> CsvCloses]} :
           n \in 0..MaxCsvRows}

InitSanitize ==
    /\ call \in [fn : {"safe_read_eod"}, files : [{"AAA"} -> CsvFiles], symbol : {"AAA"}]
    /\ pc = "call"
    /\ ret = Pending
    /\ locals = NoLocals

CallSanitize ==
    /\ call.fn = "safe_read_eod"
    /\ pc = "call"
    /\ pc' = "done"
    /\ ret' = safe_read_eod(call.files, call.symbol)
    /\ UNCHANGED <<call, locals>>

SpecSanitize == InitSanitize /\ [][CallSanitize]_vars

\* C15: a table returned by safe_read_eod has at least one row, no row whose
\* close is undefined, no row whose date is undefined or unparseable, and its
\* dates are strictly ascending (hence unique).
C15_CleanSortedRows ==
    (Returned /\ IsFrame(ret)) =>
        /\ Rows(ret) > 0
        /\ \A i \in 1..Rows(ret) : IsNum(ret.Close[i]) /\ IsNum(ret.Date[i])
        /\ \A i, j \in 1..Rows(ret) : i < j => ret.Date[i].v < ret.Date[j].v

-----------------------------------------------------------------------------
(* Further claims on a whole scan, checked under Spec *)

\* the number of bars build_watchlist finds for a name (0 without a table)
BarsOf(name) ==
    LET df == Cleaned(name)
    IN  IF IsFrame(df) THEN Rows(df) ELSE 0

\* C16 as stated: a symbol with fewer bars than the larger of 60 and
\* RECLAIM_LOOKBACK_DAYS is skipped, so every symbol evaluated has that many.
C16_SkipsBelowReclaimLookback ==
    (pc # "call" /\ locals.last.sym # "") =>
        BarsOf(locals.last.sym) >= Max(60, RECLAIM_LOOKBACK_DAYS)

\* C16: the minimum is 60 bars, whatever RECLAIM_LOOKBACK_DAYS is: of the
\* symbols scanned so far those with fewer than 60 bars (or no table) were
\* passed over without evaluation, row or error, and the others were
\* evaluated; the symbol evaluated last is the latest scanned one with at
\* least 60 bars, and no row belongs to a symbol with fewer.
C16_SkipsBelowSixtyBars ==
    pc # "call" =>
        LET eligible == {j \in 1..(locals.i - 1) : BarsOf(call.symbols[j]) >= 60}
        IN  /\ IF eligible = {} THEN locals.last.sym = ""
               ELSE locals.last.sym =
                        call.symbols[CHOOSE j \in eligible : \A x \in eligible : x <= j]
            /\ \A k \in DOMAIN locals.out_rows :
                   BarsOf(locals.out_rows[k]["Symbol"]) >= 60
\* a finished run that evaluated a symbol of 60 bars and then passed over one
\* of 59
C16_Witness ==
    /\ Returned /\ Len(call.symbols) = 2
    /\ BarsOf(call.symbols[1]) = 60 /\ BarsOf(call.symbols[2]) = 59
    /\ locals.last.sym = call.symbols[1]
    /\ locals.i = 3

\* the locals after a scan of the one symbol sym, on the files, the index and
\* the fundamentals table of the run
C17_Alone(sym) ==
    ScanStep([idx_close |-> IdxClose(Cleaned(call.index_symbol)), i |-> 1,
              out_rows |-> << >>, last |-> NoEval],
             call.files, call.fund_df, sym)

RECURSIVE C17_RowsAlone(_)
\* the rows of the first k listed symbols, each scanned alone, in list order
C17_RowsAlone(k) ==
    IF k = 0 THEN << >>
    ELSE C17_RowsAlone(k - 1) \o C17_Alone(call.symbols[k]).out_rows

C18_FundOkOnlyOnOwnPass ==
    (pc # "call" /\ locals.last.sym # "" /\ locals.last.e.fund_ok) =>
        /\ HasFundRow(call.fund_df, locals.last.sym)
        /\ fundamentals_pass(FundRowOf(call.fund_df, locals.last.sym),
                             FALSE).status = "PASS"

=============================================================================
